---- MODULE Spec2Model ----
(***************************************************************************)
(* Signpost (lucks07/DAA_Game_Signpost): a fixed 4x4 arrow puzzle played   *)
(* by a Human and a CPU.  The four source files are four iterations of the *)
(* same program:                                                           *)
(*   sample.py           greedy CPU without memory                         *)
(*   realisedVersion.py  greedy CPU with cpu_illegal_history               *)
(*   uiUpgrade.py        the same rules, event-log GUI                     *)
(*   d&c.py              depth-limited search CPU, turn timer, restart     *)
(* The variable `version` selects the file a behaviour is a run of.        *)
(***************************************************************************)
EXTENDS Integers, Sequences, FiniteSets, TLC

VARIABLES
    version,              \* which of the four programs is running
    solution_path,        \* PuzzleGraph.solution_path
    visited,              \* GraphNode.visited, per label
    visit_order,          \* GraphNode.visit_order, per label (NoOrder = None)
    current_position,     \* GameState.current_position
    current_turn,         \* GameState.current_turn
    visit_count,          \* GameState.visit_count
    human_correct_moves,
    human_illegal_moves,
    cpu_correct_moves,
    cpu_illegal_moves,
    cpu_illegal_history,  \* set of <<from, to>> pairs (always {} in sample.py)
    game_over,
    winner,
    timer_seconds,        \* PuzzleGameGUI.timer_seconds (d&c.py)
    timer_pending,        \* an update_timer callback is scheduled (d&c.py)
    cpu_pending,          \* number of scheduled cpu_turn callbacks
    pc,                   \* "idle" | "show_winner_scheduled" | "messagebox"
                          \* | "illegal_move_box"
    cpu_player_depth,     \* dncCPU.depth
    illegal_cap,          \* the model's bound on the rejections of a side
    last                  \* the handler that made the last step and what it did

vars == <<version, solution_path, visited, visit_order, current_position,
          current_turn, visit_count, human_correct_moves, human_illegal_moves,
          cpu_correct_moves, cpu_illegal_moves, cpu_illegal_history, game_over,
          winner, timer_seconds, timer_pending, cpu_pending, pc,
          cpu_player_depth, illegal_cap, last>>

gameVars == <<visited, visit_order, current_position, current_turn,
              visit_count, human_correct_moves, human_illegal_moves,
              cpu_correct_moves, cpu_illegal_moves, cpu_illegal_history,
              game_over, winner>>

-----------------------------------------------------------------------------
(* Bounds of the model *)

\* rejected attempts (and timeouts) counted per side before the model stops
\* generating further rejections of that side
MaxIllegal == 2

\* SpecPaths: besides the real solution path, every sequence of 1 to
\* MaxPathLen labels of PathLabels is tried as solution_path
MaxPathLen == 3

\* SpecGreedy: number of visited cells that are not out-neighbours of the
\* current cell in the drawn visited-flag assignments
MaxFarVisited == 1

\* SpecWinner: determine_winner is applied to all counter values 0..MaxCount
MaxCount == 2

\* SpecLive, SpecMemory: the bound on the rejections of a side in matches
\* of the programs with CPU memory (no match of theirs reaches it)
MaxLiveIllegal == 18

\* visited cells, beside the current one, of a state given to dncCPU
MaxSearchVisited == 2

-----------------------------------------------------------------------------
(* The fixed puzzle: create_fixed_puzzle *)

Versions == {"sample", "realisedVersion", "uiUpgrade", "dnc"}

GreedyVersions == {"sample", "realisedVersion", "uiUpgrade"}

MemoryVersions == {"realisedVersion", "uiUpgrade", "dnc"}

Labels == {"A", "B", "C", "D", "E", "F", "G", "H",
           "I", "J", "K", "L", "M", "N", "O", "P"}

Row == [A |-> 0, B |-> 0, C |-> 0, D |-> 0,
        E |-> 1, F |-> 1, G |-> 1, H |-> 1,
        I |-> 2, J |-> 2, K |-> 2, L |-> 2,
        M |-> 3, N |-> 3, O |-> 3, P |-> 3]

Col == [A |-> 0, B |-> 1, C |-> 2, D |-> 3,
        E |-> 0, F |-> 1, G |-> 2, H |-> 3,
        I |-> 0, J |-> 1, K |-> 2, L |-> 3,
        M |-> 0, N |-> 1, O |-> 2, P |-> 3]

\* adjacency_list after the add_edge calls, each list in insertion order
adjacency_list ==
    [A |-> <<"E", "K">>, B |-> <<"F", "L">>, C |-> <<"G", "I">>,
     D |-> <<"C">>,      E |-> <<"B", "A">>, F |-> <<"G", "H">>,
     G |-> <<"F", "E">>, H |-> <<"G">>,      I |-> <<"J">>,
     J |-> <<"N", "M">>, K |-> <<"G", "F">>, L |-> <<"H", "D">>,
     M |-> <<"N">>,      N |-> <<"O">>,      O |-> <<"P">>,
     P |-> <<>>]

FixedSolutionPath ==
    <<"A", "K", "F", "H", "G", "E", "B", "L",
      "D", "C", "I", "J", "M", "N", "O", "P">>

timer_max == 15

\* the "not yet found" score of the search loops, -10**9
NegInf == -1000000000

GoalScore == 10000

\* values standing for Python's None
None == "None"
NoOrder == 0

\* a click target that is not one of the 16 cells
Outside == "Z"

Targets == Labels \cup {Outside}

-----------------------------------------------------------------------------
(* Helpers *)

Range(s) == {s[i] : i \in 1..Len(s)}

Abs(n) == IF n < 0 THEN -n ELSE n

\* PuzzleGraph.get_neighbors: adjacency_list.get(label, [])
get_neighbors(label) ==
    IF label \in DOMAIN adjacency_list THEN adjacency_list[label] ELSE <<>>

\* list.index: position of the first occurrence, 0 when absent (ValueError)
IndexOf(path, x) ==
    IF \E i \in 1..Len(path) : path[i] = x
    THEN CHOOSE i \in 1..Len(path) :
            path[i] = x /\ \A j \in 1..(i - 1) : path[j] # x
    ELSE 0

\* the set of visited labels
VisitedSet(vis) == {l \in Labels : vis[l]}

-----------------------------------------------------------------------------
(* GameState: the rules *)

\* is_legal_move without the visited test
is_legal_move_no_visited_test(target) ==
    target \in Range(get_neighbors(current_position))

\* is_legal_move without the adjacency test
is_legal_move_no_adjacency_test(target) ==
    target \in Labels /\ ~visited[target]

\* GameState.is_legal_move: an out-neighbour of the current cell, not visited
is_legal_move(target) ==
    /\ target \in Range(get_neighbors(current_position))
    /\ ~visited[target]

\* the index after the last one wrapping round to the first label
is_correct_move_wraparound(target) ==
    LET idx == IndexOf(solution_path, current_position)
    IN  /\ idx # 0
        /\ solution_path[(idx % Len(solution_path)) + 1] = target

\* GameState.is_correct_move: the label after the first occurrence of the
\* current cell in solution_path; False on ValueError / IndexError
is_correct_move(target) ==
    LET idx == IndexOf(solution_path, current_position)
    IN  /\ idx # 0
        /\ idx + 1 <= Len(solution_path)
        /\ solution_path[idx + 1] = target

\* GameState.switch_turn
switch_turn(turn) == IF turn = "Human" THEN "CPU" ELSE "Human"

\* determine_winner breaking an error tie by the correct-move counts
determine_winner_greedy_tiebreak(hi, ci, hc, cc) ==
    IF hi < ci THEN "Human"
    ELSE IF ci < hi THEN "CPU"
    ELSE IF hc > cc THEN "Human"
    ELSE IF cc > hc THEN "CPU"
    ELSE "Draw"

\* determine_winner of sample.py, realisedVersion.py, uiUpgrade.py
determine_winner_greedy(hi, ci, hc, cc) ==
    IF hi < ci THEN "Human"
    ELSE IF ci < hi THEN "CPU"
    ELSE "Draw"

\* determine_winner of d&c.py without the comparison of the correct counts
determine_winner_dnc_errors_only(hi, ci, hc, cc) ==
    IF hi < ci THEN "Human"
    ELSE IF ci < hi THEN "CPU"
    ELSE "Draw"

\* determine_winner of d&c.py: errors first, then correct moves
determine_winner_dnc(hi, ci, hc, cc) ==
    IF hi < ci THEN "Human"
    ELSE IF ci < hi THEN "CPU"
    ELSE IF hc > cc THEN "Human"
    ELSE IF cc > hc THEN "CPU"
    ELSE "Draw"

\* determine_winner without its final else: a tie leaves winner None
determine_winner_no_else(hi, ci, hc, cc) ==
    IF hi < ci THEN "Human"
    ELSE IF ci < hi THEN "CPU"
    ELSE None

\* GameState.determine_winner of the running version
determine_winner(hi, ci, hc, cc) ==
    IF version = "dnc" THEN determine_winner_dnc(hi, ci, hc, cc)
    ELSE determine_winner_greedy(hi, ci, hc, cc)

\* the condition under which make_move takes its success branch
MoveAccepted(target) ==
    /\ ~game_over
    /\ is_legal_move(target)
    /\ is_correct_move(target)

\* the pair make_move returns
make_move_result(target) ==
    IF MoveAccepted(target) THEN <<TRUE, TRUE>> ELSE <<FALSE, FALSE>>

\* the game_over branch missing: the call is scored as an illegal move
make_move_over_scored ==
    /\ human_illegal_moves' =
         IF current_turn = "Human" THEN human_illegal_moves + 1
         ELSE human_illegal_moves
    /\ cpu_illegal_moves' =
         IF current_turn = "Human" THEN cpu_illegal_moves
         ELSE cpu_illegal_moves + 1
    /\ current_turn' = switch_turn(current_turn)
    /\ UNCHANGED <<visited, visit_order, current_position, visit_count,
                   human_correct_moves, cpu_correct_moves, game_over, winner,
                   cpu_illegal_history>>

\* make_move, branch `if self.game_over: return False, False`
make_move_over ==
    UNCHANGED gameVars

\* the rejection branch without switch_turn
make_move_reject_no_switch(target) ==
    /\ human_illegal_moves' =
         IF current_turn = "Human" THEN human_illegal_moves + 1
         ELSE human_illegal_moves
    /\ cpu_illegal_moves' =
         IF current_turn = "Human" THEN cpu_illegal_moves
         ELSE cpu_illegal_moves + 1
    /\ cpu_illegal_history' =
         IF current_turn # "Human" /\ version \in MemoryVersions
         THEN cpu_illegal_history \cup {<<current_position, target>>}
         ELSE cpu_illegal_history
    /\ UNCHANGED <<visited, visit_order, current_position, visit_count,
                   human_correct_moves, cpu_correct_moves, game_over, winner,
                   current_turn>>

\* the rejection branch recording the pair whichever side moved
make_move_reject_records_either_side(target) ==
    /\ human_illegal_moves' =
         IF current_turn = "Human" THEN human_illegal_moves + 1
         ELSE human_illegal_moves
    /\ cpu_illegal_moves' =
         IF current_turn = "Human" THEN cpu_illegal_moves
         ELSE cpu_illegal_moves + 1
    /\ cpu_illegal_history' =
         IF version \in MemoryVersions
         THEN cpu_illegal_history \cup {<<current_position, target>>}
         ELSE cpu_illegal_history
    /\ current_turn' = switch_turn(current_turn)
    /\ UNCHANGED <<visited, visit_order, current_position, visit_count,
                   human_correct_moves, cpu_correct_moves, game_over, winner>>

\* make_move, branch `if not legal or not correct`
make_move_reject(target) ==
    /\ human_illegal_moves' =
         IF current_turn = "Human" THEN human_illegal_moves + 1
         ELSE human_illegal_moves
    /\ cpu_illegal_moves' =
         IF current_turn = "Human" THEN cpu_illegal_moves
         ELSE cpu_illegal_moves + 1
    /\ cpu_illegal_history' =
         IF current_turn # "Human" /\ version \in MemoryVersions
         THEN cpu_illegal_history \cup {<<current_position, target>>}
         ELSE cpu_illegal_history
    /\ current_turn' = switch_turn(current_turn)
    /\ UNCHANGED <<visited, visit_order, current_position, visit_count,
                   human_correct_moves, cpu_correct_moves, game_over, winner>>

\* the success branch with its parts given: which cell is marked visited,
\* which visited cell is cleared (None for none), whether the goal test
\* reads the position before it is updated, and whether determine_winner
\* runs before the mover's correct count is incremented
make_move_accept_variant(target, marked, cleared, goal_before, winner_before) ==
    LET hc == IF current_turn = "Human" THEN human_correct_moves + 1
              ELSE human_correct_moves
        cc == IF current_turn = "Human" THEN cpu_correct_moves
              ELSE cpu_correct_moves + 1
        goal == IF goal_before THEN current_position = "P" ELSE target = "P"
    IN  /\ visit_count' = visit_count + 1
        /\ visited' = [l \in Labels |->
                          IF l = marked THEN TRUE
                          ELSE IF l = cleared THEN FALSE
                          ELSE visited[l]]
        /\ visit_order' = [visit_order EXCEPT ![marked] = visit_count + 1]
        /\ current_position' = target
        /\ human_correct_moves' = hc
        /\ cpu_correct_moves' = cc
        /\ game_over' = IF goal THEN TRUE ELSE game_over
        /\ winner' = IF goal
                     THEN IF winner_before
                          THEN determine_winner(human_illegal_moves,
                                                cpu_illegal_moves,
                                                human_correct_moves,
                                                cpu_correct_moves)
                          ELSE determine_winner(human_illegal_moves,
                                                cpu_illegal_moves, hc, cc)
                     ELSE winner
        /\ current_turn' = switch_turn(current_turn)
        /\ UNCHANGED <<human_illegal_moves, cpu_illegal_moves,
                       cpu_illegal_history>>

\* the goal test made on current_position before it is updated
make_move_accept_goal_before_move(target) ==
    make_move_accept_variant(target, target, None, TRUE, FALSE)

\* the cell that is left loses its visited flag
make_move_accept_unvisit_old(target) ==
    make_move_accept_variant(target, target, current_position, FALSE, FALSE)

\* the cell that is left is marked instead of the target
make_move_accept_mark_old(target) ==
    make_move_accept_variant(target, current_position, None, FALSE, FALSE)

\* determine_winner called before the mover's correct count is incremented
make_move_accept_winner_before_count(target) ==
    make_move_accept_variant(target, target, None, FALSE, TRUE)

\* the success branch numbering the target before visit_count is incremented
make_move_accept_order_before_count(target) ==
    LET hc == IF current_turn = "Human" THEN human_correct_moves + 1
              ELSE human_correct_moves
        cc == IF current_turn = "Human" THEN cpu_correct_moves
              ELSE cpu_correct_moves + 1
    IN  /\ visit_count' = visit_count + 1
        /\ visited' = [visited EXCEPT ![target] = TRUE]
        /\ visit_order' = [visit_order EXCEPT ![target] = visit_count]
        /\ current_position' = target
        /\ human_correct_moves' = hc
        /\ cpu_correct_moves' = cc
        /\ game_over' = IF target = "P" THEN TRUE ELSE game_over
        /\ winner' = IF target = "P"
                     THEN determine_winner(human_illegal_moves,
                                           cpu_illegal_moves, hc, cc)
                     ELSE winner
        /\ current_turn' = switch_turn(current_turn)
        /\ UNCHANGED <<human_illegal_moves, cpu_illegal_moves,
                       cpu_illegal_history>>

\* make_move, the legal and correct branch
make_move_accept(target) ==
    LET hc == IF current_turn = "Human" THEN human_correct_moves + 1
              ELSE human_correct_moves
        cc == IF current_turn = "Human" THEN cpu_correct_moves
              ELSE cpu_correct_moves + 1
    IN  /\ visit_count' = visit_count + 1
        /\ visited' = [visited EXCEPT ![target] = TRUE]
        /\ visit_order' = [visit_order EXCEPT ![target] = visit_count + 1]
        /\ current_position' = target
        /\ human_correct_moves' = hc
        /\ cpu_correct_moves' = cc
        /\ game_over' = IF target = "P" THEN TRUE ELSE game_over
        /\ winner' = IF target = "P"
                     THEN determine_winner(human_illegal_moves,
                                           cpu_illegal_moves, hc, cc)
                     ELSE winner
        /\ current_turn' = switch_turn(current_turn)
        /\ UNCHANGED <<human_illegal_moves, cpu_illegal_moves,
                       cpu_illegal_history>>

\* GameState.make_move
make_move(target) ==
    IF game_over THEN make_move_over
    ELSE IF ~is_legal_move(target) \/ ~is_correct_move(target)
         THEN make_move_reject(target)
         ELSE make_move_accept(target)

\* the model generates a rejection only while the mover's count is below
\* illegal_cap
WithinBound(target) ==
    \/ MoveAccepted(target)
    \/ game_over
    \/ current_turn = "Human" /\ human_illegal_moves < illegal_cap
    \/ current_turn = "CPU" /\ cpu_illegal_moves < illegal_cap

-----------------------------------------------------------------------------
(* The CPU players.  get_best_move is a set of labels: one label when the   *)
(* code computes it, every label when the code draws random.choice.         *)

\* calculate_distance_to_goal / distance_to_goal: Manhattan distance to P
distance_to_goal(label) ==
    Abs(Row[label] - Row["P"]) + Abs(Col[label] - Col["P"])

\* the first candidate, whatever its distance
MinByDistance_first_candidate(s) == s[1]

\* min(moves, key=distance_to_goal): the first element of a non-empty list
\* with the smallest distance
MinByDistance(s) ==
    s[CHOOSE i \in 1..Len(s) :
        /\ \A j \in 1..Len(s) : distance_to_goal(s[i]) <= distance_to_goal(s[j])
        /\ \A j \in 1..(i - 1) : distance_to_goal(s[j]) > distance_to_goal(s[i])]

\* the primary list without the visited test
PrimaryMoves_no_visited_test(current, visited_set, illegal_history) ==
    LET keep(n) == <<current, n>> \notin illegal_history
    IN  SelectSeq(get_neighbors(current), keep)

\* the primary list without the history test
PrimaryMoves_no_history_test(current, visited_set, illegal_history) ==
    LET keep(n) == n \notin visited_set
    IN  SelectSeq(get_neighbors(current), keep)

\* [n for n in neighbors if n not in visited and (current, n) not in history]
PrimaryMoves(current, visited_set, illegal_history) ==
    LET keep(n) == n \notin visited_set /\ <<current, n>> \notin illegal_history
    IN  SelectSeq(get_neighbors(current), keep)

\* [n for n in neighbors if n not in visited]
FallbackMoves(current, visited_set) ==
    LET keep(n) == n \notin visited_set
    IN  SelectSeq(get_neighbors(current), keep)

\* the same choice taking the last candidate instead of the closest
get_best_move_sample_last_candidate(current, visited_set) ==
    LET neighbors == get_neighbors(current)
        legal == FallbackMoves(current, visited_set)
        legal_moves == IF legal = <<>> THEN neighbors ELSE legal
    IN  IF legal_moves = <<>> THEN Labels
        ELSE {legal_moves[Len(legal_moves)]}

\* sample.py GreedyCPU.get_best_move: unvisited neighbours, else any
\* neighbour, else a random label; the closest to P, first on a tie
get_best_move_sample(current, visited_set) ==
    LET neighbors == get_neighbors(current)
        legal == FallbackMoves(current, visited_set)
        legal_moves == IF legal = <<>> THEN neighbors ELSE legal
    IN  IF legal_moves = <<>> THEN Labels
        ELSE {MinByDistance(legal_moves)}

\* realisedVersion.py GreedyCPU.get_best_move
get_best_move_realised(current, visited_set, illegal_history) ==
    LET neighbors == get_neighbors(current)
        primary_moves == PrimaryMoves(current, visited_set, illegal_history)
        fallback_moves == FallbackMoves(current, visited_set)
        first == IF primary_moves # <<>> THEN primary_moves ELSE fallback_moves
        candidate_moves == IF first = <<>> THEN neighbors ELSE first
    IN  IF candidate_moves = <<>> THEN Labels
        ELSE {MinByDistance(candidate_moves)}

\* uiUpgrade.py GreedyCPU.get_best_move: primary or fallback or neighbors
get_best_move_uiUpgrade(current, visited_set, illegal_history) ==
    LET neighbors == get_neighbors(current)
        primary == PrimaryMoves(current, visited_set, illegal_history)
        fallback == FallbackMoves(current, visited_set)
        candidates == IF primary # <<>> THEN primary
                      ELSE IF fallback # <<>> THEN fallback
                      ELSE neighbors
    IN  IF candidates = <<>> THEN Labels
        ELSE {MinByDistance(candidates)}

\* dncCPU.build_candidates
build_candidates(current, visited_set, illegal_history) ==
    LET neighbors == get_neighbors(current)
        primary == PrimaryMoves(current, visited_set, illegal_history)
        fallback == FallbackMoves(current, visited_set)
    IN  IF primary # <<>> THEN primary
        ELSE IF fallback # <<>> THEN fallback
        ELSE neighbors

\* the leaf score growing with the distance to P instead of falling
score_state_far_is_better(position) ==
    IF position = "P" THEN GoalScore ELSE distance_to_goal(position)

\* dncCPU.score_state
score_state(position) ==
    IF position = "P" THEN GoalScore ELSE -distance_to_goal(position)

RECURSIVE evaluate_best_score(_, _, _, _)
RECURSIVE evaluate_loop(_, _, _, _, _, _)

\* evaluate_best_score without its last test: the value of the loop is
\* returned even when every candidate was skipped
evaluate_best_score_no_blocked_test(current, depth, visited_set, illegal_history) ==
    IF depth = 0 \/ current = "P" THEN score_state(current)
    ELSE LET candidates ==
                 build_candidates(current, visited_set, illegal_history)
         IN  IF candidates = <<>> THEN score_state(current)
             ELSE evaluate_loop(candidates, 1, NegInf, depth, visited_set,
                                illegal_history)

\* the `for nxt in candidates` loop of evaluate_best_score from index i on,
\* with the running maximum best
evaluate_loop(candidates, i, best, depth, visited_set, illegal_history) ==
    IF i > Len(candidates) THEN best
    ELSE IF candidates[i] \in visited_set
         THEN evaluate_loop(candidates, i + 1, best, depth, visited_set,
                            illegal_history)
         ELSE LET sub_score ==
                      evaluate_best_score(candidates[i], depth - 1,
                                          visited_set \cup {candidates[i]},
                                          illegal_history)
              IN  evaluate_loop(candidates, i + 1,
                                IF sub_score > best THEN sub_score ELSE best,
                                depth, visited_set, illegal_history)

\* dncCPU.evaluate_best_score
evaluate_best_score(current, depth, visited_set, illegal_history) ==
    IF depth = 0 \/ current = "P" THEN score_state(current)
    ELSE LET candidates ==
                 build_candidates(current, visited_set, illegal_history)
         IN  IF candidates = <<>> THEN score_state(current)
             ELSE LET best == evaluate_loop(candidates, 1, NegInf, depth,
                                            visited_set, illegal_history)
                  IN  IF best = NegInf THEN score_state(current) ELSE best

RECURSIVE simulated_paths(_, _, _, _)

\* the simulated paths of evaluate_best_score: the sequences of cells its
\* nested calls enter (nxt, then the nxt of the call on nxt, ...) down to a
\* call that returns score_state
simulated_paths(current, depth, visited_set, illegal_history) ==
    IF depth = 0 \/ current = "P" THEN {<<>>}
    ELSE LET candidates ==
                 build_candidates(current, visited_set, illegal_history)
             entered == {nxt \in Range(candidates) : nxt \notin visited_set}
         IN  IF entered = {} THEN {<<>>}
             ELSE UNION {{<<nxt>> \o p :
                            p \in simulated_paths(nxt, depth - 1,
                                                  visited_set \cup {nxt},
                                                  illegal_history)} :
                         nxt \in entered}

RECURSIVE best_move_loop(_, _, _, _, _, _, _)

\* the `for move in candidates` loop of dncCPU.get_best_move from index i on
best_move_loop(candidates, i, best_move, best_score, depth, visited_set, illegal_history) ==
    IF i > Len(candidates) THEN best_move
    ELSE IF candidates[i] \in visited_set
         THEN best_move_loop(candidates, i + 1, best_move, best_score, depth,
                             visited_set, illegal_history)
         ELSE LET sc == evaluate_best_score(candidates[i], depth - 1,
                                            visited_set \cup {candidates[i]},
                                            illegal_history)
              IN  IF sc > best_score
                  THEN best_move_loop(candidates, i + 1, candidates[i], sc,
                                      depth, visited_set, illegal_history)
                  ELSE best_move_loop(candidates, i + 1, best_move,
                                      best_score, depth, visited_set,
                                      illegal_history)

\* dncCPU.get_best_move with self.depth = depth
get_best_move_dnc(current, visited_set, illegal_history, depth) ==
    LET candidates == build_candidates(current, visited_set, illegal_history)
    IN  IF candidates = <<>> THEN Labels
        ELSE {best_move_loop(candidates, 1, candidates[1], NegInf, depth,
                             visited_set, illegal_history)}

\* dncCPU(self.graph, self.game_state, depth=6)
SearchDepth == 6

\* self.cpu_player.get_best_move() on the current state
get_best_move ==
    CASE version = "sample" ->
             get_best_move_sample(current_position, VisitedSet(visited))
      [] version = "realisedVersion" ->
             get_best_move_realised(current_position, VisitedSet(visited),
                                    cpu_illegal_history)
      [] version = "uiUpgrade" ->
             get_best_move_uiUpgrade(current_position, VisitedSet(visited),
                                     cpu_illegal_history)
      [] OTHER ->
             get_best_move_dnc(current_position, VisitedSet(visited),
                               cpu_illegal_history, cpu_player_depth)

-----------------------------------------------------------------------------
(* PuzzleGameGUI: the event handlers.  Each action is one handler run to    *)
(* its end by the Tk event loop.                                            *)

Step(op, target, called, ret) ==
    [op |-> op, target |-> target, called |-> called, ret |-> ret,
     depth |-> 0, score |-> 0]

NoCall == <<FALSE, FALSE>>

\* d&c.py start_timer: timer_seconds = 0, then update_timer runs at once on
\* the state the handler has just produced
start_timer(over, turn) ==
    IF over THEN [seconds |-> 0, pending |-> FALSE]
    ELSE IF turn = "Human" THEN [seconds |-> 1, pending |-> TRUE]
    ELSE [seconds |-> 0, pending |-> TRUE]

\* d&c.py reset_timer (after_cancel of the pending callback, then
\* start_timer); the other versions have no timer
reset_timer ==
    IF version = "dnc"
    THEN /\ timer_seconds' = start_timer(game_over', current_turn').seconds
         /\ timer_pending' = start_timer(game_over', current_turn').pending
    ELSE UNCHANGED <<timer_seconds, timer_pending>>

\* GameState.__init__ leaving visit_count at 0 although A is visited
GameStateInit_visit_count_zero ==
    /\ visited = [l \in Labels |-> l = "A"]
    /\ visit_order = [l \in Labels |-> IF l = "A" THEN 1 ELSE NoOrder]
    /\ current_position = "A"
    /\ current_turn = "Human"
    /\ visit_count = 0
    /\ human_correct_moves = 0
    /\ human_illegal_moves = 0
    /\ cpu_correct_moves = 0
    /\ cpu_illegal_moves = 0
    /\ cpu_illegal_history = {}
    /\ game_over = FALSE
    /\ winner = None

\* GameState.__init__ on a fresh graph
GameStateInit ==
    /\ visited = [l \in Labels |-> l = "A"]
    /\ visit_order = [l \in Labels |-> IF l = "A" THEN 1 ELSE NoOrder]
    /\ current_position = "A"
    /\ current_turn = "Human"
    /\ visit_count = 1
    /\ human_correct_moves = 0
    /\ human_illegal_moves = 0
    /\ cpu_correct_moves = 0
    /\ cpu_illegal_moves = 0
    /\ cpu_illegal_history = {}
    /\ game_over = FALSE
    /\ winner = None

\* PuzzleGameGUI.__init__
GuiInit ==
    /\ timer_seconds = IF version = "dnc" THEN start_timer(FALSE, "Human").seconds
                       ELSE 0
    /\ timer_pending = IF version = "dnc" THEN start_timer(FALSE, "Human").pending
                       ELSE FALSE
    /\ cpu_pending = 0
    /\ pc = "idle"
    /\ cpu_player_depth = SearchDepth
    /\ last = Step("__init__", None, FALSE, NoCall)

Init ==
    /\ version \in Versions
    /\ solution_path = FixedSolutionPath
    /\ illegal_cap = MaxIllegal
    /\ GameStateInit
    /\ GuiInit

\* the first test of on_cell_click without the turn test
ClickIgnored_no_turn_test == game_over

\* on_cell_click returns at its first test: not the Human's turn, or over
ClickIgnored == current_turn # "Human" \/ game_over

\* sample.py, realisedVersion.py: on_cell_click shows the modal box
\* "Illegal Move" after a rejected make_move and goes on when it is closed
BoxVersions == {"sample", "realisedVersion"}

\* PuzzleGameGUI.on_cell_click(label); in BoxVersions a rejected click stops
\* in the box after make_move, before cpu_turn is scheduled
on_cell_click(label) ==
    /\ pc \in {"idle", "show_winner_scheduled"}
    /\ UNCHANGED <<version, solution_path, cpu_player_depth, illegal_cap>>
    /\ IF ClickIgnored
       THEN /\ last' = Step("on_cell_click", label, FALSE, NoCall)
            /\ UNCHANGED <<gameVars, timer_seconds, timer_pending,
                           cpu_pending, pc>>
       ELSE /\ WithinBound(label)
            /\ make_move(label)
            /\ last' = Step("on_cell_click", label, TRUE,
                            make_move_result(label))
            /\ reset_timer
            /\ IF game_over'
               THEN /\ pc' = "messagebox"
                    /\ timer_pending' = FALSE
                    /\ UNCHANGED cpu_pending
               ELSE IF version \in BoxVersions /\ ~MoveAccepted(label)
               THEN /\ pc' = "illegal_move_box"
                    /\ UNCHANGED cpu_pending
               ELSE /\ pc' = pc
                    /\ cpu_pending' =
                         IF version \in {"uiUpgrade", "dnc"}
                            \/ current_turn' = "CPU"
                         THEN cpu_pending + 1 ELSE cpu_pending

\* PuzzleGameGUI.cpu_turn, run from root.after
cpu_turn ==
    /\ cpu_pending > 0
    /\ cpu_pending' = cpu_pending - 1
    /\ UNCHANGED <<version, solution_path, cpu_player_depth, illegal_cap>>
    /\ IF game_over
       THEN /\ last' = Step("cpu_turn", None, FALSE, NoCall)
            /\ UNCHANGED <<gameVars, timer_seconds, timer_pending, pc>>
       ELSE \E move \in get_best_move :
            /\ WithinBound(move)
            /\ make_move(move)
            /\ last' = Step("cpu_turn", move, TRUE, make_move_result(move))
            /\ reset_timer
            /\ pc' = IF ~game_over' THEN pc
                     ELSE IF version = "dnc" THEN "show_winner_scheduled"
                     ELSE "messagebox"

\* d&c.py update_timer run from root.after, when it does not time out
update_timer ==
    /\ version = "dnc"
    /\ timer_pending
    /\ ~(~game_over /\ current_turn = "Human"
         /\ timer_seconds + 1 >= timer_max)
    /\ timer_pending' = ~game_over
    /\ timer_seconds' =
         IF ~game_over /\ current_turn = "Human" THEN timer_seconds + 1
         ELSE timer_seconds
    /\ last' = Step("update_timer", None, FALSE, NoCall)
    /\ UNCHANGED <<version, solution_path, cpu_player_depth, illegal_cap,
                   gameVars, cpu_pending, pc>>

\* d&c.py update_timer reaching timer_max, which runs on_timeout
on_timeout ==
    /\ version = "dnc"
    /\ timer_pending
    /\ ~game_over /\ current_turn = "Human"
    /\ timer_seconds + 1 >= timer_max
    /\ human_illegal_moves < illegal_cap
    /\ human_illegal_moves' = human_illegal_moves + 1
    /\ current_turn' = switch_turn(current_turn)
    /\ UNCHANGED <<visited, visit_order, current_position, visit_count,
                   human_correct_moves, cpu_correct_moves, cpu_illegal_moves,
                   cpu_illegal_history, game_over, winner>>
    /\ reset_timer
    /\ cpu_pending' = cpu_pending + 1
    /\ last' = Step("on_timeout", None, FALSE, NoCall)
    /\ UNCHANGED <<version, solution_path, cpu_player_depth, illegal_cap, pc>>

\* d&c.py show_winner run from root.after(1000, ...) after a CPU win: the
\* timer is cancelled and the Game Over box opens
show_winner ==
    /\ pc = "show_winner_scheduled"
    /\ pc' = "messagebox"
    /\ timer_pending' = FALSE
    /\ last' = Step("show_winner", None, FALSE, NoCall)
    /\ UNCHANGED <<version, solution_path, cpu_player_depth, illegal_cap,
                   gameVars, timer_seconds,
                   cpu_pending>>

\* the user closes the open modal box.  The "Illegal Move" box of
\* on_cell_click: the handler goes on to its game_over test and schedules
\* cpu_turn when it is the CPU's turn.  The Game Over box: show_winner
\* returns; in d&c.py it goes on to restart_game (create_fixed_puzzle,
\* GameState and dncCPU(depth=6) anew, then start_timer)
close_messagebox ==
    /\ pc \in {"messagebox", "illegal_move_box"}
    /\ UNCHANGED <<version, illegal_cap>>
    /\ IF pc = "illegal_move_box"
       THEN /\ pc' = IF game_over THEN "messagebox" ELSE "idle"
            /\ cpu_pending' = IF ~game_over /\ current_turn = "CPU"
                              THEN cpu_pending + 1 ELSE cpu_pending
            /\ last' = Step("illegal_move_box_closed", None, FALSE, NoCall)
            /\ UNCHANGED <<solution_path, cpu_player_depth, gameVars,
                           timer_seconds, timer_pending>>
       ELSE /\ pc' = "idle"
            /\ UNCHANGED cpu_pending
            /\ IF version = "dnc"
               THEN /\ solution_path' = FixedSolutionPath
                    /\ cpu_player_depth' = SearchDepth
                    /\ visited' = [l \in Labels |-> l = "A"]
                    /\ visit_order' =
                         [l \in Labels |-> IF l = "A" THEN 1 ELSE NoOrder]
                    /\ current_position' = "A"
                    /\ current_turn' = "Human"
                    /\ visit_count' = 1
                    /\ human_correct_moves' = 0
                    /\ human_illegal_moves' = 0
                    /\ cpu_correct_moves' = 0
                    /\ cpu_illegal_moves' = 0
                    /\ cpu_illegal_history' = {}
                    /\ game_over' = FALSE
                    /\ winner' = None
                    /\ timer_seconds' = start_timer(FALSE, "Human").seconds
                    /\ timer_pending' = start_timer(FALSE, "Human").pending
                    /\ last' = Step("restart_game", None, FALSE, NoCall)
               ELSE /\ last' = Step("show_winner", None, FALSE, NoCall)
                    /\ UNCHANGED <<solution_path, cpu_player_depth, gameVars,
                                   timer_seconds, timer_pending>>

\* the buttons are bound to the 16 labels of the grid
Next ==
    \/ \E label \in Labels : on_cell_click(label)
    \/ cpu_turn
    \/ update_timer
    \/ on_timeout
    \/ show_winner
    \/ close_messagebox

Spec == Init /\ [][Next]_vars

-----------------------------------------------------------------------------
(* SpecPaths: the same program with set_solution_path given other paths    *)

\* A, its out-neighbours E and K, and an out-neighbour of each of them
PathLabels == {"A", "E", "K", "B", "G"}

SolutionPaths ==
    {FixedSolutionPath}
        \cup UNION {[1..n -> PathLabels] : n \in 1..MaxPathLen}

InitPaths ==
    /\ version \in Versions
    /\ solution_path \in SolutionPaths
    /\ illegal_cap = MaxIllegal
    /\ GameStateInit
    /\ GuiInit

SpecPaths == InitPaths /\ [][Next]_vars

------------------------------------------------------------------------------
(* SpecCalls: SpecPaths, and GameState.make_move called directly with a     *)
(* target that is no label of the grid (the buttons only pass grid labels)  *)

\* game_state.make_move(target), called once while the GUI is idle and no
\* cpu_turn is scheduled; no click is followed after it has returned
make_move_call(target) ==
    /\ pc = "idle"
    /\ cpu_pending = 0
    /\ pc' = "returned"
    /\ WithinBound(target)
    /\ make_move(target)
    /\ last' = Step("make_move", target, TRUE, make_move_result(target))
    /\ UNCHANGED <<version, solution_path, cpu_player_depth, illegal_cap,
                   timer_seconds, timer_pending, cpu_pending>>

\* the targets no button passes
NextCalls == Next \/ \E target \in Targets \ Labels : make_move_call(target)

SpecCalls == InitPaths /\ [][NextCalls]_vars

-----------------------------------------------------------------------------
(* SpecWinner: the program, and determine_winner applied to drawn counters *)

\* a GameState on P with drawn counters, on which determine_winner is about
\* to be called
InitWinner ==
    /\ version \in Versions
    /\ solution_path = FixedSolutionPath
    /\ visited = [l \in Labels |-> TRUE]
    /\ visit_order = [l \in Labels |-> IndexOf(FixedSolutionPath, l)]
    /\ current_position = "P"
    /\ current_turn \in {"Human", "CPU"}
    /\ visit_count = Len(FixedSolutionPath)
    /\ human_correct_moves \in 0..MaxCount
    /\ human_illegal_moves \in 0..MaxCount
    /\ cpu_correct_moves \in 0..MaxCount
    /\ cpu_illegal_moves \in 0..MaxCount
    /\ cpu_illegal_history = {}
    /\ game_over = TRUE
    /\ winner = None
    /\ timer_seconds = 0
    /\ timer_pending = FALSE
    /\ cpu_pending = 0
    /\ pc = "determine_winner"
    /\ cpu_player_depth = SearchDepth
    /\ illegal_cap = MaxIllegal
    /\ last = Step("__init__", None, FALSE, NoCall)

\* GameState.determine_winner() called on the drawn state
determine_winner_call ==
    /\ pc = "determine_winner"
    /\ pc' = "returned"
    /\ winner' = determine_winner(human_illegal_moves, cpu_illegal_moves,
                                  human_correct_moves, cpu_correct_moves)
    /\ last' = Step("determine_winner", None, FALSE, NoCall)
    /\ UNCHANGED <<version, solution_path, cpu_player_depth, illegal_cap,
                   visited, visit_order,
                   current_position, current_turn, visit_count,
                   human_correct_moves, human_illegal_moves,
                   cpu_correct_moves, cpu_illegal_moves, cpu_illegal_history,
                   game_over, timer_seconds, timer_pending, cpu_pending>>

NextWinner == Next \/ determine_winner_call

SpecWinner == (Init \/ InitWinner) /\ [][NextWinner]_vars

-----------------------------------------------------------------------------
(* SpecGreedy: GreedyCPU.get_best_move applied to drawn game states        *)

\* the out-edges of a cell, as history pairs
OutPairs(current) == {<<current, n>> : n \in Range(get_neighbors(current))}

\* visited-flag assignments: any flags on the out-neighbours of the current
\* cell, and at most MaxFarVisited visited cells elsewhere
DrawnVisitedSets(current) ==
    LET near == Range(get_neighbors(current))
    IN  {n \cup f : n \in SUBSET near,
                    f \in {x \in SUBSET (Labels \ near) :
                              Cardinality(x) <= MaxFarVisited}}

InitGreedy ==
    /\ version \in GreedyVersions
    /\ solution_path = FixedSolutionPath
    /\ current_position \in Labels
    /\ \E vs \in DrawnVisitedSets(current_position) :
          /\ visited = [l \in Labels |-> l \in vs]
          /\ visit_order = [l \in Labels |-> NoOrder]
          /\ visit_count = Cardinality(vs)
    /\ current_turn = "CPU"
    /\ human_correct_moves = 0
    /\ human_illegal_moves = 0
    /\ cpu_correct_moves = 0
    /\ cpu_illegal_moves = 0
    /\ cpu_illegal_history \in
          IF version = "sample" THEN {{}}
          ELSE SUBSET OutPairs(current_position)
    /\ game_over = FALSE
    /\ winner = None
    /\ timer_seconds = 0
    /\ timer_pending = FALSE
    /\ cpu_pending = 0
    /\ pc = "get_best_move"
    /\ cpu_player_depth = SearchDepth
    /\ illegal_cap = MaxIllegal
    /\ last = Step("__init__", None, FALSE, NoCall)

\* self.cpu_player.get_best_move() called on the drawn state
get_best_move_call ==
    /\ pc = "get_best_move"
    /\ pc' = "returned"
    /\ \E move \in get_best_move :
          last' = Step("get_best_move", move, FALSE, NoCall)
    /\ UNCHANGED <<version, solution_path, cpu_player_depth, illegal_cap,
                   gameVars, timer_seconds,
                   timer_pending, cpu_pending>>

NextGreedy == get_best_move_call

SpecGreedy == InitGreedy /\ [][NextGreedy]_vars

-----------------------------------------------------------------------------
(* SpecSearch: dncCPU.get_best_move applied to drawn game states            *)

\* history pairs away from the current cell, read by the simulated moves
FarPairs == {<<"F", "G">>, <<"J", "N">>}

\* visited-flag assignments: the current cell and at most MaxSearchVisited
\* other cells
SearchVisitedSets(current) ==
    {{current} \cup x : x \in {y \in SUBSET (Labels \ {current}) :
                                  Cardinality(y) <= MaxSearchVisited}}

InitSearch ==
    /\ version = "dnc"
    /\ solution_path = FixedSolutionPath
    /\ current_position \in Labels
    /\ \E vs \in SearchVisitedSets(current_position) :
          /\ visited = [l \in Labels |-> l \in vs]
          /\ visit_order = [l \in Labels |-> NoOrder]
          /\ visit_count = Cardinality(vs)
    /\ current_turn = "CPU"
    /\ human_correct_moves = 0
    /\ human_illegal_moves = 0
    /\ cpu_correct_moves = 0
    /\ cpu_illegal_moves = 0
    /\ \E near \in SUBSET OutPairs(current_position), far \in SUBSET FarPairs :
          cpu_illegal_history = near \cup far
    /\ game_over = FALSE
    /\ winner = None
    /\ timer_seconds = 0
    /\ timer_pending = FALSE
    /\ cpu_pending = 0
    /\ pc = "get_best_move"
    /\ cpu_player_depth = SearchDepth
    /\ illegal_cap = MaxIllegal
    /\ last = Step("__init__", None, FALSE, NoCall)

\* self.evaluate_best_score(current, depth, visited_set, illegal_history)
\* called on the drawn state, from its current cell, with a depth of
\* 0..self.depth
evaluate_best_score_call ==
    /\ pc = "get_best_move"
    /\ pc' = "returned"
    /\ \E d \in 0..cpu_player_depth :
          last' = [op |-> "evaluate_best_score",
                   target |-> current_position,
                   called |-> FALSE,
                   ret |-> NoCall,
                   depth |-> d,
                   score |-> evaluate_best_score(current_position, d,
                                                 VisitedSet(visited),
                                                 cpu_illegal_history)]
    /\ UNCHANGED <<version, solution_path,
                   cpu_player_depth, illegal_cap, gameVars,
                   timer_seconds, timer_pending, cpu_pending>>

NextSearch == get_best_move_call \/ evaluate_best_score_call

SpecSearch == InitSearch /\ [][NextSearch]_vars

-----------------------------------------------------------------------------
(* SpecOver: the program, and GameState.make_move called once more after    *)
(* the match has ended (the handlers themselves never do that)              *)

\* game_state.make_move(target) on a finished match
make_move_after_over(target) ==
    /\ game_over
    /\ make_move(target)
    /\ last' = Step("make_move", target, TRUE, make_move_result(target))
    /\ UNCHANGED <<version, solution_path, cpu_player_depth, illegal_cap,
                   timer_seconds, timer_pending,
                   cpu_pending, pc>>

NextOver == Next \/ \E target \in Targets : make_move_after_over(target)

SpecOver == Init /\ [][NextOver]_vars

-----------------------------------------------------------------------------
(* SpecLive: d&c.py with its timer ticks and scheduled callbacks delivered. *)
(* root.after callbacks that are due are run by the Tk event loop: weak     *)
(* fairness of update_timer, on_timeout, cpu_turn and show_winner.  Clicks  *)
(* and the closing of the Game Over box are up to the user: no fairness.    *)

InitLive ==
    /\ version = "dnc"
    /\ solution_path = FixedSolutionPath
    /\ illegal_cap = MaxLiveIllegal
    /\ GameStateInit
    /\ GuiInit

(* Weak fairness of cpu_turn, written out.  WF_vars(cpu_turn) is             *)
(* <>[](ENABLED <<cpu_turn>>_vars) => []<><<cpu_turn>>_vars, and a scheduled *)
(* cpu_turn can always run: its only guard is cpu_pending > 0, it always   *)
(* lowers cpu_pending, and in SpecLive illegal_cap never binds.            *)
cpu_turn_weakly_fair == (<>[](cpu_pending > 0)) => []<><<cpu_turn>>_vars

Fairness ==
    /\ WF_vars(update_timer)
    /\ WF_vars(on_timeout)
    /\ cpu_turn_weakly_fair
    /\ WF_vars(show_winner)

SpecLive == InitLive /\ [][Next]_vars /\ Fairness

------------------------------------------------------------------------------
(* SpecMemory: the matches of the three programs whose CPU has a memory,    *)
(* with the rejections of a side bounded by MaxLiveIllegal, which no match  *)
(* of theirs reaches: no step of a match is left out.                       *)

InitMemory ==
    /\ version \in MemoryVersions
    /\ solution_path = FixedSolutionPath
    /\ illegal_cap = MaxLiveIllegal
    /\ GameStateInit
    /\ GuiInit

SpecMemory == InitMemory /\ [][Next]_vars

-----------------------------------------------------------------------------
(* SpecShallow: the matches of uiUpgrade.py, and of d&c.py with its CPU     *)
(* built as dncCPU(graph, game_state, depth=1) instead of the depth=6 of   *)
(* PuzzleGameGUI.__init__.                                                 *)

\* the lookahead of the shallow search
ShallowDepth == 1

InitShallow ==
    /\ version \in {"uiUpgrade", "dnc"}
    /\ solution_path = FixedSolutionPath
    /\ illegal_cap = MaxIllegal
    /\ GameStateInit
    /\ timer_seconds = IF version = "dnc" THEN start_timer(FALSE, "Human").seconds
                       ELSE 0
    /\ timer_pending = IF version = "dnc" THEN start_timer(FALSE, "Human").pending
                       ELSE FALSE
    /\ cpu_pending = 0
    /\ pc = "idle"
    /\ cpu_player_depth = ShallowDepth
    /\ last = Step("__init__", None, FALSE, NoCall)

SpecShallow == InitShallow /\ [][Next]_vars

-----------------------------------------------------------------------------
(* Properties.  In an action formula the unprimed variables are the state   *)
(* make_move was called on, last' says which handler ran and with which     *)
(* target, and the primed variables are the state it left.                  *)

\* the side whose turn it is gained exactly one illegal move in this step
\* and the other side none
MoverIllegalPlusOne ==
    IF current_turn = "Human"
    THEN /\ human_illegal_moves' = human_illegal_moves + 1
         /\ cpu_illegal_moves' = cpu_illegal_moves
    ELSE /\ cpu_illegal_moves' = cpu_illegal_moves + 1
         /\ human_illegal_moves' = human_illegal_moves

\* the side whose turn it is gained exactly one correct move in this step
MoverCorrectPlusOne ==
    IF current_turn = "Human"
    THEN human_correct_moves' = human_correct_moves + 1
    ELSE cpu_correct_moves' = cpu_correct_moves + 1

\* t is an out-neighbour of the current cell in the fixed adjacency list
IsOutNeighbour(t) ==
    /\ current_position \in DOMAIN adjacency_list
    /\ \E k \in 1..Len(adjacency_list[current_position]) :
          adjacency_list[current_position][k] = t

\* t is the label that follows the current cell in solution_path
FollowsInPath(t) ==
    \E i \in 1..(Len(solution_path) - 1) :
       /\ solution_path[i] = current_position
       /\ \A j \in 1..(i - 1) : solution_path[j] # current_position
       /\ solution_path[i + 1] = t

\* t is legal and correct in the current state
LegalAndCorrect(t) ==
    /\ IsOutNeighbour(t)
    /\ ~visited[t]
    /\ FollowsInPath(t)

\* the step was a successful make_move(t)
MoveSucceeded(t) ==
    /\ last'.ret = <<TRUE, TRUE>>
    /\ current_position' = t
    /\ visited'[t]
    /\ MoverCorrectPlusOne

\* C1: make_move(target), called while the match is not over, succeeds
\* (returns (True, True), moves current_position to target, marks target
\* visited, adds 1 to the mover's correct count) if and only if target is an
\* out-neighbour of current_position, is not visited and is the label after
\* current_position in solution_path; with the real solution path, A to E
\* from the start is rejected.  Checked for every solution path of SpecPaths.
C1_MakeMoveSucceedsIffLegalAndCorrect ==
    [][(last'.called /\ ~game_over) =>
          /\ MoveSucceeded(last'.target) <=> LegalAndCorrect(last'.target)
          /\ (/\ solution_path = FixedSolutionPath
              /\ current_position = "A"
              /\ last'.target = "E") => last'.ret = <<FALSE, FALSE>>]_vars

\* a CPU move has succeeded after the Human had an attempt rejected
C1_Witness ==
    /\ last.op = "cpu_turn"
    /\ last.called
    /\ last.ret = <<TRUE, TRUE>>
    /\ current_position = last.target
    /\ visited[last.target]
    /\ cpu_correct_moves >= 1
    /\ human_illegal_moves >= 1

\* C2: a rejected make_move (target not legal or not correct, match not
\* over) adds exactly 1 to the mover's illegal count, flips current_turn,
\* returns (False, False) and leaves current_position, all visited flags and
\* visit_orders, visit_count, both correct counts and the other side's
\* illegal count unchanged.
C2_RejectedMoveFrame ==
    [][(last'.called /\ ~game_over /\ ~LegalAndCorrect(last'.target)) =>
          /\ MoverIllegalPlusOne
          /\ current_turn' = (IF current_turn = "Human" THEN "CPU" ELSE "Human")
          /\ last'.ret = <<FALSE, FALSE>>
          /\ UNCHANGED <<current_position, visited, visit_order, visit_count,
                         human_correct_moves, cpu_correct_moves>>]_vars

\* the CPU has just had an attempt rejected, after moves had been made
C2_Witness ==
    /\ last.op = "cpu_turn"
    /\ last.called
    /\ last.ret = <<FALSE, FALSE>>
    /\ current_turn = "Human"
    /\ cpu_illegal_moves = 1
    /\ visit_count >= 2

\* C3: whatever the solution path, a make_move(target) with target not in
\* the adjacency list of current_position is rejected: current_position and
\* the visited flags do not change and the mover's illegal count grows by 1.
\* (The handlers call make_move only while the match is not over.)
C3_OffAdjacencyRejected ==
    [][(last'.called /\ ~IsOutNeighbour(last'.target)) =>
          /\ current_position' = current_position
          /\ visited' = visited
          /\ MoverIllegalPlusOne
          /\ last'.ret = <<FALSE, FALSE>>]_vars

\* the path names as next label a cell that is no out-neighbour of the
\* current cell, the Human clicked exactly that cell, and it was rejected
C3_Witness ==
    /\ last.op = "on_cell_click"
    /\ last.called
    /\ FollowsInPath(last.target)
    /\ ~IsOutNeighbour(last.target)
    /\ last.ret = <<FALSE, FALSE>>
    /\ human_illegal_moves >= 1

\* C4: in every reachable state of every version, current_position = 'P'
\* implies game_over, with the winner determined: the move onto P ends the
\* match in the same step, whichever side makes it.
C4_GoalEndsMatch ==
    current_position = "P" => (game_over /\ winner # None)

\* the CPU has just moved onto P
C4_Witness ==
    /\ current_position = "P"
    /\ last.op = "cpu_turn"
    /\ last.ret = <<TRUE, TRUE>>
    /\ game_over

\* C5: only the goal ends a match: game_over implies current_position = 'P',
\* and winner is not None exactly when game_over; so no move onto another
\* cell, no rejected move and no timeout sets game_over or winner.
C5_OnlyGoalEndsMatch ==
    /\ game_over => current_position = "P"
    /\ (winner # None) <=> game_over

\* a match that ended in a draw
C5_Witness ==
    /\ game_over
    /\ current_position = "P"
    /\ winner = "Draw"

\* C6: within one match every step (successful move, rejected move,
\* timeout, CPU move) leaves every visited cell visited; only restart_game,
\* which starts a new match on a fresh graph, clears flags.
C6_VisitedNeverReverts ==
    [][last'.op # "restart_game" =>
          \A c \in Labels : visited[c] => visited'[c]]_vars

\* a timeout has just passed the turn with three or more cells visited
C6_Witness ==
    /\ last.op = "on_timeout"
    /\ Cardinality({c \in Labels : visited[c]}) >= 3

\* C7: in every reachable state the cell at current_position is visited.
C7_CurrentCellVisited ==
    visited[current_position]

\* a successful move has just put the position on a cell other than A
C7_Witness ==
    /\ last.called
    /\ last.ret = <<TRUE, TRUE>>
    /\ current_position = last.target
    /\ current_position # "A"
    /\ visited[current_position]

\* C8: in sample.py, realisedVersion.py and uiUpgrade.py, when the match has
\* ended the winner is 'Human' iff the Human has fewer illegal moves, 'CPU'
\* iff the CPU has fewer, and 'Draw' iff the illegal counts are equal; the
\* correct-move counts play no part.
C8_GreedyWinnerByIllegalCounts ==
    (version \in GreedyVersions /\ game_over) =>
        /\ (winner = "Human") <=> (human_illegal_moves < cpu_illegal_moves)
        /\ (winner = "CPU") <=> (cpu_illegal_moves < human_illegal_moves)
        /\ (winner = "Draw") <=> (human_illegal_moves = cpu_illegal_moves)

\* a draw with equal illegal counts although the Human made more correct
\* moves than the CPU
C8_Witness ==
    /\ version \in GreedyVersions
    /\ game_over
    /\ winner = "Draw"
    /\ human_illegal_moves = cpu_illegal_moves
    /\ human_correct_moves > cpu_correct_moves

\* C9: in d&c.py, once determined, the winner is the side with strictly
\* fewer illegal moves; on equal illegal counts the side with strictly more
\* correct moves, the move onto P already counted for its mover; on equal
\* illegal and equal correct counts, 'Draw'.
C9_DncWinnerWithTieBreak ==
    (version = "dnc" /\ winner # None) =>
        winner =
          IF human_illegal_moves < cpu_illegal_moves THEN "Human"
          ELSE IF cpu_illegal_moves < human_illegal_moves THEN "CPU"
          ELSE IF human_correct_moves > cpu_correct_moves THEN "Human"
          ELSE IF cpu_correct_moves > human_correct_moves THEN "CPU"
          ELSE "Draw"

\* the Human moved onto P with equal illegal counts and wins by that one
\* move: 8 correct moves against 7
C9_Witness ==
    /\ version = "dnc"
    /\ game_over
    /\ last.op = "on_cell_click"
    /\ last.target = "P"
    /\ human_illegal_moves = cpu_illegal_moves
    /\ human_correct_moves = cpu_correct_moves + 1
    /\ winner = "Human"

\* C10: for every drawn assignment of visited flags and cpu_illegal_history,
\* if current_position has an unvisited out-neighbour then the greedy
\* get_best_move returns an unvisited out-neighbour of current_position.
C10_GreedyPicksUnvisitedNeighbour ==
    (/\ last.op = "get_best_move"
     /\ \E t \in Labels : IsOutNeighbour(t) /\ ~visited[t]) =>
        /\ IsOutNeighbour(last.target)
        /\ ~visited[last.target]

\* the only unvisited out-neighbour is in cpu_illegal_history, the other
\* out-neighbour is visited, and the unvisited one is returned
C10_Witness ==
    /\ last.op = "get_best_move"
    /\ version # "sample"
    /\ IsOutNeighbour(last.target)
    /\ ~visited[last.target]
    /\ <<current_position, last.target>> \in cpu_illegal_history
    /\ \E t \in Labels : IsOutNeighbour(t) /\ visited[t]

\* m is the element of the list L with the smallest Manhattan distance to P,
\* the earliest such element when several share it
IsFirstClosest(m, L) ==
    \E i \in 1..Len(L) :
       /\ L[i] = m
       /\ \A j \in 1..Len(L) : distance_to_goal(L[j]) >= distance_to_goal(m)
       /\ \A j \in 1..(i - 1) : distance_to_goal(L[j]) # distance_to_goal(m)

\* the first non-empty of: the unvisited out-neighbours of the current cell
\* whose pair is not in cpu_illegal_history, its unvisited out-neighbours,
\* all its out-neighbours; each in adjacency-list order
FirstNonEmptyTier ==
    LET out == adjacency_list[current_position]
        fresh(n) == ~visited[n] /\ <<current_position, n>> \notin cpu_illegal_history
        unvisited(n) == ~visited[n]
        tier1 == SelectSeq(out, fresh)
        tier2 == SelectSeq(out, unvisited)
    IN  IF tier1 # <<>> THEN tier1 ELSE IF tier2 # <<>> THEN tier2 ELSE out

\* C11: in realisedVersion.py and uiUpgrade.py, GreedyCPU.get_best_move
\* returns the element of smallest Manhattan distance to P (the first in
\* adjacency-list order on a tie) of the first non-empty of three lists: the
\* unvisited out-neighbours whose pair is not in cpu_illegal_history, the
\* unvisited out-neighbours, all out-neighbours; the result is a randomly
\* drawn label only when the current cell has no out-neighbour.
C11_GreedyThreeTierChoice ==
    (last.op = "get_best_move" /\ version \in {"realisedVersion", "uiUpgrade"}) =>
        IF adjacency_list[current_position] = <<>>
        THEN last.target \in Labels
        ELSE IsFirstClosest(last.target, FirstNonEmptyTier)

\* a call answered from the third list: both out-neighbours are visited and
\* the second, the closer to P, is returned
C11_Witness ==
    /\ last.op = "get_best_move"
    /\ version \in {"realisedVersion", "uiUpgrade"}
    /\ Len(adjacency_list[current_position]) = 2
    /\ \A k \in 1..2 : visited[adjacency_list[current_position][k]]
    /\ last.target = adjacency_list[current_position][2]

\* the largest element of a non-empty set of integers
SetMax(S) == CHOOSE x \in S : \A y \in S : y <= x

\* the cells a simulated move may go to from cell: its out-neighbours not on
\* the simulated path whose pair is not in cpu_illegal_history, or, when
\* there are none, its out-neighbours not on the simulated path
SimulatedMoves(cell, on_path) ==
    LET out == Range(adjacency_list[cell])
        fresh == {n \in out : n \notin on_path /\ <<cell, n>> \notin cpu_illegal_history}
    IN  IF fresh # {} THEN fresh ELSE {n \in out : n \notin on_path}

RECURSIVE LeafScores(_, _, _)

\* the scores of the leaves of the simulated continuations from cell with at
\* most moves_left further moves: a leaf is P, a cell at the cutoff or a cell
\* without a simulated move, and scores 10000 if it is P, otherwise minus its
\* Manhattan distance to P
LeafScores(cell, moves_left, on_path) ==
    IF cell = "P" THEN {10000}
    ELSE IF moves_left = 0 \/ SimulatedMoves(cell, on_path) = {}
         THEN {0 - distance_to_goal(cell)}
         ELSE UNION {LeafScores(n, moves_left - 1, on_path \cup {n}) :
                        n \in SimulatedMoves(cell, on_path)}

\* the value of a candidate of the current state: its largest leaf score
\* over the continuations of at most SearchDepth - 1 further moves
CandidateValue(c) ==
    SetMax(LeafScores(c, SearchDepth - 1, VisitedSet(visited) \cup {c}))

\* m is the first element of the list L whose value is maximal in L
IsFirstBest(m, L) ==
    \E i \in 1..Len(L) :
       /\ L[i] = m
       /\ \A j \in 1..Len(L) : CandidateValue(L[j]) <= CandidateValue(m)
       /\ \A j \in 1..(i - 1) : CandidateValue(L[j]) # CandidateValue(m)

\* C12: dncCPU.get_best_move returns the first candidate, in adjacency-list
\* order, whose value is maximal among the candidates of the three-tier
\* filter, the value of a candidate being the largest leaf score over the
\* simulated continuations of at most depth - 1 further moves through cells
\* not yet visited on the simulated path.  Stated of every call the cpu_turn
\* callback of d&c.py makes in a match: the unprimed variables are the state
\* get_best_move read, last'.target is the move it returned.
C12_DncPicksFirstBestCandidate ==
    [][(/\ last'.op = "cpu_turn"
        /\ last'.called
        /\ version = "dnc")
          => IsFirstBest(last'.target, FirstNonEmptyTier)]_vars

\* the CPU of d&c.py, at K with the candidates G and F, returned F, the
\* second of them, whose value is the larger, and the move was accepted
C12_Witness ==
    /\ version = "dnc"
    /\ last.op = "cpu_turn"
    /\ last.called
    /\ last.target = "F"
    /\ last.ret = <<TRUE, TRUE>>
    /\ current_position = "F"
    /\ visit_count = 3
    /\ cpu_illegal_history = {}

\* the same on the drawn states of SpecSearch, which no match need reach: on
\* a state with an unvisited out-neighbour dncCPU.get_best_move returns the
\* first candidate of maximal value; with every out-neighbour visited, which
\* the visited cells of a match never are, it returns the first out-neighbour
C12_ScoredUnlessAllVisited ==
    (/\ last.op = "get_best_move"
     /\ version = "dnc"
     /\ adjacency_list[current_position] # <<>>)
        => IF \E n \in Range(adjacency_list[current_position]) : ~visited[n]
           THEN IsFirstBest(last.target, FirstNonEmptyTier)
           ELSE last.target = adjacency_list[current_position][1]

\* the current cell is the last label of solution_path and occurs nowhere
\* before it (list.index finds the first occurrence)
AtEndOfPath ==
    /\ current_position = solution_path[Len(solution_path)]
    /\ \A j \in 1..(Len(solution_path) - 1) : solution_path[j] # current_position

\* t is one of the targets make_move has to reject: not a cell label, the
\* current cell, a visited cell, not an out-neighbour, or a legal target that
\* is not the next label of the solution path
BadTarget(t) ==
    \/ t \notin Labels
    \/ t = current_position
    \/ t \in Labels /\ visited[t]
    \/ ~IsOutNeighbour(t)
    \/ IsOutNeighbour(t) /\ ~visited[t] /\ ~FollowsInPath(t)

\* C13: make_move raises for no target: a target that is not a cell label,
\* is the current cell, is visited, is not an out-neighbour, or is legal but
\* off the solution path gets (False, False) and one illegal move of the side
\* to move, the position staying put and the turn passing on; and
\* is_correct_move is False for every target when the current cell is the
\* last label of solution_path.  Checked for every solution path of
\* SpecCalls, whose direct calls pass the target that is no cell label.
C13_BadTargetsRejectedWithoutError ==
    [][/\ (last'.called /\ ~game_over /\ BadTarget(last'.target)) =>
             /\ last'.ret = <<FALSE, FALSE>>
             /\ MoverIllegalPlusOne
             /\ current_position' = current_position
             /\ visited' = visited
             /\ current_turn' # current_turn
       /\ AtEndOfPath => \A t \in Targets : ~is_correct_move(t)
       /\ (last'.called /\ ~game_over /\ AtEndOfPath) =>
             last'.ret = <<FALSE, FALSE>>]_vars

\* with the path E, A the start cell A is the last label: the legal click on
\* E, an unvisited out-neighbour of A, was rejected and counted
C13_Witness ==
    /\ solution_path = <<"E", "A">>
    /\ last.called
    /\ last.target = "E"
    /\ last.ret = <<FALSE, FALSE>>
    /\ current_position = "A"
    /\ human_illegal_moves = 1

\* make_move was called with a target that is no cell label, on the Human's
\* turn of a match under way, and rejected it as an illegal move of the Human
C13_WitnessOutside ==
    /\ last.op = "make_move"
    /\ last.target = Outside
    /\ last.ret = <<FALSE, FALSE>>
    /\ visit_count >= 2
    /\ human_illegal_moves = 1
    /\ current_turn = "CPU"
    /\ ~game_over

\* the attempts (correct and illegal) made so far by each side
HumanAttempts == human_correct_moves + human_illegal_moves

CpuAttempts == cpu_correct_moves + cpu_illegal_moves

\* on the Human's turn both sides have made the same number of attempts, on
\* the CPU's turn the Human has made exactly one more
TurnParity ==
    /\ current_turn = "Human" => HumanAttempts = CpuAttempts
    /\ current_turn = "CPU" => HumanAttempts = CpuAttempts + 1

\* C14: the sides alternate strictly, the Human first: in every reachable
\* state current_turn = Human implies equal attempt totals and current_turn =
\* CPU implies the Human total is the CPU total plus 1 (a d&c.py timeout
\* counting as a Human illegal attempt), and every make_move called while the
\* match is not over flips current_turn.
C14_StrictAlternation ==
    [][/\ TurnParity
       /\ TurnParity'
       /\ (last'.called /\ ~game_over) => current_turn' # current_turn]_vars

\* a timeout passed the turn to the CPU with the Human one attempt ahead,
\* after both sides had already made an attempt
C14_Witness ==
    /\ last.op = "on_timeout"
    /\ current_turn = "CPU"
    /\ CpuAttempts >= 1
    /\ HumanAttempts = CpuAttempts + 1

\* the game state is that of a new match: only A visited, with visit_order
\* 1, visit_count 1, position A, the Human to move, every counter 0, the
\* history empty, the match not over and without winner
FreshMatch ==
    /\ \A l \in Labels : visited[l] <=> l = "A"
    /\ \A l \in Labels : visit_order[l] = IF l = "A" THEN 1 ELSE NoOrder
    /\ visit_count = 1
    /\ current_position = "A"
    /\ current_turn = "Human"
    /\ human_correct_moves = 0 /\ human_illegal_moves = 0
    /\ cpu_correct_moves = 0 /\ cpu_illegal_moves = 0
    /\ cpu_illegal_history = {}
    /\ ~game_over
    /\ winner = None

\* C16: in d&c.py, restart_game after a finished match yields exactly the
\* initial match state: only A visited with visit_order 1, visit_count 1,
\* position A, turn Human, all four counters 0, empty cpu_illegal_history,
\* game_over False, winner None and timer count 0.  restart_game ends in
\* start_timer, whose immediate update_timer counts the first tick, so the
\* timer count it leaves is 1 and this statement fails.
C16_RestartGivesInitialState ==
    [][(last'.op = "restart_game") =>
          /\ game_over
          /\ FreshMatch'
          /\ timer_seconds' = 0]_vars

\* the part of C16 that holds: restart_game leaves a fresh match, with the
\* timer count at 1 as after construction
C16_RestartGivesFreshMatch ==
    [][(last'.op = "restart_game") =>
          /\ game_over
          /\ FreshMatch'
          /\ timer_seconds' = 1
          /\ timer_pending']_vars

\* C17: in the versions with CPU memory, cpu_illegal_history holds exactly
\* the pairs (position, target) of the rejected attempts made on the CPU's
\* turn: such an attempt adds its pair, and a rejected Human attempt, a
\* timeout and a successful move of either side leave the set unchanged; no
\* pair is removed during a match (restart_game of d&c.py starts the next
\* match with the empty set).
C17_HistoryRecordsCpuRejections ==
    [][(version \in MemoryVersions) =>
          IF /\ last'.called
             /\ ~game_over
             /\ current_turn = "CPU"
             /\ last'.ret = <<FALSE, FALSE>>
          THEN cpu_illegal_history' =
                  cpu_illegal_history \cup {<<current_position, last'.target>>}
          ELSE IF last'.op = "restart_game"
               THEN cpu_illegal_history' = {}
               ELSE cpu_illegal_history' = cpu_illegal_history]_vars

\* the CPU was rejected for the second time in a match and the history
\* holds both pairs, after the Human too had an attempt rejected
C17_Witness ==
    /\ version \in MemoryVersions
    /\ last.op = "cpu_turn"
    /\ last.ret = <<FALSE, FALSE>>
    /\ cpu_illegal_moves = 2
    /\ human_illegal_moves >= 1
    /\ Cardinality(cpu_illegal_history) = 2
    /\ <<current_position, last.target>> \in cpu_illegal_history

\* C18: once game_over is True, make_move returns (False, False) for every
\* target and changes nothing: the counters, current_turn, current_position,
\* the visited flags and winner keep the values they had when P was reached;
\* and in d&c.py no timeout is added to human_illegal_moves after the end, so
\* the winner agrees with the final counters.  Only restart_game of d&c.py,
\* which starts the next match, changes the game state of a finished match.
C18_NothingChangesAfterGameOver ==
    [][game_over =>
          /\ last'.called =>
                /\ last'.ret = <<FALSE, FALSE>>
                /\ UNCHANGED gameVars
          /\ last'.op # "on_timeout"
          /\ (last'.op # "restart_game") =>
                /\ UNCHANGED gameVars
                /\ winner = determine_winner(human_illegal_moves',
                                             cpu_illegal_moves',
                                             human_correct_moves',
                                             cpu_correct_moves')]_vars

\* make_move was called on the finished match of d&c.py, on the CPU's turn
\* (the Human reached P), with an out-of-grid target, and returned
\* (False, False)
C18_Witness ==
    /\ version = "dnc"
    /\ game_over
    /\ current_position = "P"
    /\ current_turn = "CPU"
    /\ last.op = "make_move"
    /\ last.called
    /\ last.target = Outside
    /\ last.ret = <<FALSE, FALSE>>

\* a cell has a visit_order exactly when it is visited, the visit_order
\* values of the visited cells are the numbers 1..visit_count, each once,
\* and the current cell carries visit_count
VisitOrderConsistent ==
    /\ \A l \in Labels : (visit_order[l] # NoOrder) <=> visited[l]
    /\ {visit_order[l] : l \in {x \in Labels : visited[x]}} = 1..visit_count
    /\ \A l, m \in Labels :
          (visited[l] /\ visited[m] /\ visit_order[l] = visit_order[m]) => l = m
    /\ visit_order[current_position] = visit_count

\* C19: in every reachable state a cell's visit_order is not None exactly
\* when its visited flag is True, the visit_order values of the visited
\* cells are exactly 1..visit_count without repetition and the current cell
\* has visit_order = visit_count; a visit_order, once set, never changes
\* during the match (restart_game of d&c.py starts the next one).
C19_VisitOrderNumbersThePath ==
    [][/\ VisitOrderConsistent
       /\ VisitOrderConsistent'
       /\ (last'.op # "restart_game") =>
             \A l \in Labels :
                (visit_order[l] # NoOrder) => visit_order'[l] = visit_order[l]]_vars

\* five cells into the match, after rejected attempts of both sides: G is
\* the current cell and carries the number 5
C19_Witness ==
    /\ current_position = "G"
    /\ visit_count = 5
    /\ visit_order["G"] = 5
    /\ visit_order["H"] = 4
    /\ human_illegal_moves >= 1
    /\ cpu_illegal_moves >= 1
    /\ last.ret = <<TRUE, TRUE>>

\* the step was a timeout of d&c.py: it came on the Human's turn of a running
\* match with the tick that takes the counter to timer_max, added 1 to
\* human_illegal_moves, passed the turn to the CPU, scheduled one CPU move and
\* left the position, the visited flags, the correct counts, the CPU's
\* illegal count and the history alone
TimeoutStep ==
    /\ version = "dnc"
    /\ current_turn = "Human"
    /\ ~game_over
    /\ timer_seconds + 1 = timer_max
    /\ human_illegal_moves' = human_illegal_moves + 1
    /\ current_turn' = "CPU"
    /\ ~game_over'
    /\ cpu_pending' = cpu_pending + 1
    /\ UNCHANGED <<current_position, visited, human_correct_moves,
                   cpu_correct_moves, cpu_illegal_moves, cpu_illegal_history>>

\* the step was a click that got past the first test of on_cell_click, a
\* CPU move or a timeout, in d&c.py
TimerResettingStep ==
    /\ version = "dnc"
    /\ \/ last'.op = "on_cell_click" /\ last'.called
       \/ last'.op = "cpu_turn"
       \/ last'.op = "on_timeout"

\* C20: in d&c.py a timeout fires only on the Human's turn of a running
\* match, when the tick counter reaches timer_max (15); it adds 1 to
\* human_illegal_moves, passes the turn to the CPU, schedules one CPU move and
\* leaves position, visited flags, correct counts, cpu_illegal_moves and
\* history unchanged; the tick counter does not advance during the CPU's
\* turn and is reset to 0 by every click, CPU move and timeout.  A CPU move
\* that does not end the match leaves the counter at 1, not 0 (reset_timer
\* runs update_timer at once, on the Human's turn), so this statement fails.
C20_TimeoutRule ==
    [][/\ (last'.op = "on_timeout") => TimeoutStep
       /\ (current_turn = "CPU" /\ last'.op = "update_timer") =>
             timer_seconds' = timer_seconds
       /\ TimerResettingStep => timer_seconds' = 0]_vars

\* the part of C20 that holds, with the counter a resetting handler leaves:
\* 0 when the CPU is to move or the match is over, 1 when the Human is
C20_TimeoutRuleWithFirstTick ==
    [][/\ (last'.op = "on_timeout") => TimeoutStep
       /\ (current_turn = "CPU" /\ last'.op = "update_timer") =>
             timer_seconds' = timer_seconds
       /\ TimerResettingStep =>
             timer_seconds' = IF ~game_over' /\ current_turn' = "Human"
                              THEN 1 ELSE 0]_vars

\* neither Human counter changed in this step
HumanCountersUnchanged ==
    UNCHANGED <<human_correct_moves, human_illegal_moves>>

\* neither CPU counter changed in this step
CpuCountersUnchanged ==
    UNCHANGED <<cpu_correct_moves, cpu_illegal_moves>>

\* C21: under every interleaving of clicks, timer ticks and delayed
\* callbacks, a click runs make_move only when current_turn = Human and the
\* match is not over, and the cpu_turn callback runs make_move only when
\* current_turn = CPU; at most one cpu_turn callback is pending at any time
\* and none while it is the Human's turn; so a click never changes a CPU
\* counter and a cpu_turn never changes a Human counter.
C21_HandlersMoveOnlyOnTheirTurn ==
    [][/\ (last'.op = "on_cell_click" /\ last'.called) =>
             /\ current_turn = "Human"
             /\ ~game_over
             /\ CpuCountersUnchanged
       /\ (last'.op = "cpu_turn" /\ last'.called) =>
             /\ current_turn = "CPU"
             /\ ~game_over
             /\ HumanCountersUnchanged
       /\ cpu_pending <= 1 /\ cpu_pending' <= 1
       /\ (current_turn = "Human") => cpu_pending = 0
       /\ (current_turn' = "Human") => cpu_pending' = 0]_vars

\* a click arrived while the cpu_turn callback scheduled by a timeout was
\* still pending, and was ignored
C21_Witness ==
    /\ version = "dnc"
    /\ last.op = "on_cell_click"
    /\ ~last.called
    /\ cpu_pending = 1
    /\ current_turn = "CPU"
    /\ ~game_over
    /\ human_illegal_moves = 1
    /\ HumanAttempts = 1

\* the sequence p repeats no cell
IsSimplePath(p) ==
    \A i, j \in 1..Len(p) : (p[i] = p[j]) => i = j

\* C22: dncCPU.evaluate_best_score terminates for every call with depth >=
\* 0; every simulated path it explores is a simple path (no cell repeated, no
\* really visited cell entered) of at most depth moves; and its result is
\* 10000 or minus a Manhattan distance, never the -10^9 sentinel.
C22_SearchBoundedSimpleAndScored ==
    (last.op = "evaluate_best_score") =>
        /\ \/ last.score = 10000
           \/ \E l \in Labels : last.score = 0 - distance_to_goal(l)
        /\ last.score # 0 - 10^9
        /\ \A p \in simulated_paths(current_position, last.depth,
                                     VisitedSet(visited), cpu_illegal_history) :
              /\ Len(p) <= last.depth
              /\ IsSimplePath(p)
              /\ \A i \in 1..Len(p) : ~visited[p[i]]

\* a call at full depth from a cell whose out-neighbours are both visited:
\* every candidate is skipped and the cell's own score is returned
C22_Witness ==
    /\ last.op = "evaluate_best_score"
    /\ last.depth = SearchDepth
    /\ current_position = "C"
    /\ visited["G"] /\ visited["I"]
    /\ last.score = 0 - distance_to_goal("C")

\* C23: in every reachable state the visited cells are exactly the first
\* visit_count labels of solution_path and current_position is the
\* visit_count-th of them; so, while the match is not over, the correct next
\* label exists and is an unvisited out-neighbour of current_position:
\* is_correct_move(t) implies is_legal_move(t), and no attempt is rejected
\* for being correct but illegal.
C23_VisitedIsPathPrefix ==
    /\ visit_count \in 1..Len(solution_path)
    /\ VisitedSet(visited) = {solution_path[i] : i \in 1..visit_count}
    /\ current_position = solution_path[visit_count]
    /\ ~game_over =>
          /\ \E t \in Labels : is_correct_move(t)
          /\ \A t \in Targets : is_correct_move(t) => is_legal_move(t)

\* nine cells into a match in which both sides had attempts rejected
C23_Witness ==
    /\ visit_count = 9
    /\ current_position = "D"
    /\ ~game_over
    /\ is_correct_move("C") /\ is_legal_move("C")
    /\ human_illegal_moves >= 1
    /\ cpu_illegal_moves >= 1

\* C24: in every reachable state human_correct_moves + cpu_correct_moves =
\* visit_count - 1, and when game_over is True this sum is exactly 15.
C24_CorrectMovesCountThePath ==
    /\ human_correct_moves + cpu_correct_moves = visit_count - 1
    /\ game_over => human_correct_moves + cpu_correct_moves = 15

\* a finished match in which both sides also had attempts rejected
C24_Witness ==
    /\ game_over
    /\ visit_count = 16
    /\ human_correct_moves + cpu_correct_moves = 15
    /\ human_illegal_moves >= 1
    /\ cpu_illegal_moves >= 1

\* C25: in d&c.py no match ends with winner = Draw: the two correct counts
\* add up to 15 when P is reached, so they are never equal and the last
\* branch of determine_winner is not reached.
C25_DncNeverDraws ==
    (version = "dnc") =>
        /\ winner # "Draw"
        /\ game_over =>
              /\ human_correct_moves # cpu_correct_moves
              /\ winner \in {"Human", "CPU"}

\* a d&c.py match finished with equal illegal counts, decided by the
\* correct counts
C25_Witness ==
    /\ version = "dnc"
    /\ game_over
    /\ human_illegal_moves = cpu_illegal_moves
    /\ human_illegal_moves >= 1
    /\ winner = IF human_correct_moves > cpu_correct_moves THEN "Human"
                ELSE "CPU"

\* the unvisited out-neighbours n of the current cell whose pair
\* (current_position, n) is not in cpu_illegal_history
PrimaryList ==
    LET fresh(n) == ~visited[n] /\ <<current_position, n>> \notin cpu_illegal_history
    IN  SelectSeq(adjacency_list[current_position], fresh)

\* C26: in the versions with CPU memory, whenever the CPU is asked for a
\* move in a match that is not over the primary candidate list is not empty;
\* hence the CPU's target is on that list: it never repeats a pair of
\* cpu_illegal_history, never targets a visited cell and never falls to the
\* second or third list or to the random choice; and cpu_illegal_moves is the
\* number of pairs in cpu_illegal_history in every reachable state.
C26_CpuAlwaysHasAFreshCandidate ==
    [][(version \in MemoryVersions) =>
          /\ (last'.op = "cpu_turn" /\ last'.called) =>
                /\ PrimaryList # <<>>
                /\ last'.target \in Range(PrimaryList)
                /\ <<current_position, last'.target>> \notin cpu_illegal_history
                /\ ~visited[last'.target]
          /\ cpu_illegal_moves = Cardinality(cpu_illegal_history)
          /\ cpu_illegal_moves' = Cardinality(cpu_illegal_history')]_vars

\* the CPU, asked again at a cell where it had been rejected, took the other
\* out-neighbour and was accepted
C26_Witness ==
    /\ version \in MemoryVersions
    /\ last.op = "cpu_turn"
    /\ last.ret = <<TRUE, TRUE>>
    /\ \E n \in Labels :
          /\ n # current_position
          /\ <<solution_path[visit_count - 1], n>> \in cpu_illegal_history

\* C27: with CPU memory the CPU makes at most 2 rejected attempts per match,
\* whatever the Human does: cpu_illegal_history is always a subset of
\* {(K,G), (J,N)} for the greedy CPU of realisedVersion.py and uiUpgrade.py
\* and of {(F,G), (J,N)} for the depth-6 dncCPU of d&c.py.  Checked in
\* SpecMemory, where neither side ever reaches the bound on its rejections
\* (last conjunct), so every rejection the programs can make is generated.
C27_CpuRejectedAtMostTwice ==
    /\ (version \in {"realisedVersion", "uiUpgrade"}) =>
          /\ cpu_illegal_history \subseteq {<<"K", "G">>, <<"J", "N">>}
          /\ cpu_illegal_moves <= 2
    /\ (version = "dnc") =>
          /\ cpu_illegal_history \subseteq {<<"F", "G">>, <<"J", "N">>}
          /\ cpu_illegal_moves <= 2
    /\ cpu_illegal_moves < illegal_cap
    /\ human_illegal_moves < illegal_cap

\* a d&c.py match in which the CPU was rejected at F and at J, and the
\* Human was rejected or timed out more often than the CPU
C27_Witness ==
    /\ version = "dnc"
    /\ illegal_cap = MaxLiveIllegal
    /\ cpu_illegal_history = {<<"F", "G">>, <<"J", "N">>}
    /\ cpu_illegal_moves = 2
    /\ human_illegal_moves >= 3

\* the same for the greedy CPU with memory, rejected at K and at J
C27_WitnessGreedy ==
    /\ version = "uiUpgrade"
    /\ illegal_cap = MaxLiveIllegal
    /\ cpu_illegal_history = {<<"K", "G">>, <<"J", "N">>}
    /\ cpu_illegal_moves = 2
    /\ human_illegal_moves >= 3

\* C28: in d&c.py, with timer ticks and scheduled callbacks delivered (weak
\* fairness), every match eventually reaches game_over, even if the Human
\* never clicks or only clicks wrong cells: every Human turn ends by a click
\* or a timeout, then the CPU moves, and the CPU advances the position after
\* at most one rejected attempt at any cell.
C28_EveryMatchEnds == (~game_over) ~> game_over

\* a match ended although the Human never made a correct move: the CPU made
\* all 15
C28_Witness ==
    /\ version = "dnc"
    /\ game_over
    /\ human_correct_moves = 0
    /\ cpu_correct_moves = 15
    /\ human_illegal_moves = 17
    /\ illegal_cap = MaxLiveIllegal

\* the cpu_turn callback of this step called make_move from cell at, was
\* rejected on target to, and left the position where it was
CpuRepeatsRejected(at, to) ==
    (last'.op = "cpu_turn" /\ last'.called /\ current_position = at) =>
        /\ last'.target = to
        /\ last'.ret = <<FALSE, FALSE>>
        /\ current_position' = at
        /\ cpu_illegal_moves' = cpu_illegal_moves + 1

\* C29: in sample.py (greedy CPU without memory) every CPU turn at K targets
\* G and every CPU turn at J targets N, each one rejected and counted, so the
\* position leaves K and leaves J only through a Human click, F is entered
\* only by the Human's click K to F, and no match ends before F was entered:
\* a match in which the Human never plays K to F never ends.
C29_MemorylessCpuRepeatsItself ==
    [][(version = "sample") =>
          /\ CpuRepeatsRejected("K", "G")
          /\ CpuRepeatsRejected("J", "N")
          /\ (current_position \in {"K", "J"}
                /\ current_position' # current_position) =>
                   /\ last'.op = "on_cell_click"
                   /\ last'.called
          /\ (~visited["F"] /\ visited'["F"]) =>
                   /\ current_position = "K"
                   /\ last'.op = "on_cell_click"
                   /\ last'.target = "F"
          /\ game_over' => visited'["F"]
          /\ (~visited["F"]) => ~game_over]_vars

\* the CPU of sample.py has just been rejected on K to G for the last time
\* the bound of the model lets it, having been rejected there every time
C29_Witness ==
    /\ version = "sample"
    /\ last.op = "cpu_turn"
    /\ last.target = "G"
    /\ current_position = "K"
    /\ cpu_illegal_moves = illegal_cap
    /\ cpu_correct_moves = 0
    /\ ~game_over

\* the same CPU rejected on J to N after the Human played K to F
C29_WitnessAtJ ==
    /\ version = "sample"
    /\ last.op = "cpu_turn"
    /\ last.target = "N"
    /\ current_position = "J"
    /\ visited["F"]
    /\ ~game_over

\* C30: on every reachable state of a match, dncCPU.get_best_move with
\* depth = 1 returns the same move as GreedyCPU.get_best_move of uiUpgrade.py
\* for the same position, visited flags and cpu_illegal_history.
C30_DepthOneIsGreedy ==
    get_best_move_dnc(current_position, VisitedSet(visited),
                      cpu_illegal_history, ShallowDepth)
      = get_best_move_uiUpgrade(current_position, VisitedSet(visited),
                                cpu_illegal_history)

\* a d&c.py match played by the depth-1 CPU: it was rejected on K to G as
\* the greedy CPU is, moved on, and has several candidates to compare
C30_Witness ==
    /\ version = "dnc"
    /\ cpu_player_depth = ShallowDepth
    /\ cpu_illegal_history = {<<"K", "G">>}
    /\ cpu_correct_moves >= 1
    /\ ~game_over
    /\ Len(build_candidates(current_position, VisitedSet(visited),
                            cpu_illegal_history)) >= 2

====
